---- MODULE Spec2Model ----
(***************************************************************************)
(* Backend selection of the readwritesplit router                          *)
(* (server/modules/routing/readwritesplit/rwsplit_select_backends.cc).     *)
(*                                                                         *)
(* Backends are numbered 1..NumBackends in list order; 0 stands for a null *)
(* RWBackend pointer.  A PRWBackends vector is a sequence of backend       *)
(* numbers; an iterator into it is an index 1..Len, and end() is Len + 1.  *)
(*                                                                         *)
(* A session is served by one worker: a call of                            *)
(* select_connect_backend_servers runs without interruption, and the       *)
(* monitor's reports are seen between calls.  The statistics of the        *)
(* servers are written by other workers without locking, so every scoring  *)
(* pass reads values drawn anew.  mxb_assert (line 429) is a debug check   *)
(* that does not end the call; call.entry_slaves_connected keeps the count *)
(* it tests.  The expected_responses out-parameter is always supplied.     *)
(***************************************************************************)
EXTENDS Integers, Sequences, FiniteSets, TLC

\* ------------------------------------------------------------------ bounds
NumBackends == 2
MaxSlaves == 2
MaxMetric == 1
MaxWeight == 1
MaxAve == 10
MantissaBits == 8

Backends == 1..NumBackends
NullBackend == 0

\* All backends in list order (the router's backend list).
AllBackends == [i \in 1..NumBackends |-> i]

(* Status bits the monitor reports for a server.  The relay bit is only     *)
(* ever read as is_slave() || is_relay(), so of the sets that hold the     *)
(* slave bit only those without the relay bit are drawn.                   *)
StatusBits == {"master", "slave", "relay"}
StatusValues == {s \in SUBSET StatusBits : ~({"slave", "relay"} \subseteq s)}

\* ------------------------------------------------------------ configuration
FailureModes == {"RW_FAIL_INSTANTLY", "RW_FAIL_ON_WRITE", "RW_ERROR_ON_WRITE"}

NonAdaptive ==
    {"LEAST_GLOBAL_CONNECTIONS", "LEAST_ROUTER_CONNECTIONS",
     "LEAST_BEHIND_MASTER", "LEAST_CURRENT_OPERATIONS"}

Criteria == NonAdaptive \cup {"ADAPTIVE_ROUTING"}

\* the policies session bring-up is explored under
BringUpCriteria == {"LEAST_CURRENT_OPERATIONS", "ADAPTIVE_ROUTING"}

VARIABLES
    status,             \* status[b]: the status bits of backend b's server
    can_connect,        \* can_connect[b]
    in_use,             \* in_use[b]
    server_weight,      \* server_weight[b] (SERVER_REF::server_weight)
    cnf,                \* the router's Config
    current_master,     \* *current_master of the session (0: nullptr)
    expected_responses, \* *expected_responses of the session
    pc,                 \* "idle", "loop" (inside the top-up loop), "done"
    call,               \* locals and arguments of the running / last call
    has_session_commands, \* has_session_commands[b]
    sel                 \* arguments and result of the last selection function call

vars == <<status, can_connect, in_use, server_weight, cnf, current_master,
          expected_responses, pc, call, has_session_commands, sel>>

\* ------------------------------------------------------- backend predicates
is_master(b) == "master" \in status[b]
is_slave(b) == "slave" \in status[b]
is_relay(b) == "relay" \in status[b]

\* An iterator past the last element.
End(s) == Len(s) + 1

\* std::find(backends.begin(), backends.end(), x)
Find(s, x) ==
    IF \E i \in 1..Len(s) : s[i] = x
    THEN CHOOSE i \in 1..Len(s) : s[i] = x /\ \A j \in 1..(i - 1) : s[j] # x
    ELSE End(s)

\* erase() that removes nothing
Erase_nothing(s, ite) == s

\* erase() that always removes the last element
Erase_last(s, ite) == [i \in 1..(Len(s) - 1) |-> s[i]]

\* vector::erase(ite)
Erase(s, ite) == [i \in 1..(Len(s) - 1) |-> IF i < ite THEN s[i] ELSE s[i + 1]]

\* the check without the comparison with the master
valid_for_slave_any_role(backend, master) ==
    is_slave(backend) \/ is_relay(backend)

valid_for_slave(backend, master) ==
    (is_slave(backend) \/ is_relay(backend))
    /\ (master = NullBackend \/ backend # master)

\* ------------------------------------------------------------------ scores
(* A double score: a rational n/d with d > 0, or DBL_MAX, or +infinity (what *)
(* (DBL_MAX + 5.0) * 1.5 overflows to).                                     *)
Num(n, d) == [k |-> "num", n |-> n, d |-> d]
DblMax == [k |-> "max", n |-> 0, d |-> 1]
Infinity == [k |-> "inf", n |-> 0, d |-> 1]

Rank(s) == CASE s.k = "num" -> 0 [] s.k = "max" -> 1 [] s.k = "inf" -> 2

\* a > b on doubles
ScoreGt(a, b) ==
    IF a.k = "num" /\ b.k = "num"
    THEN a.n * b.d > b.n * a.d
    ELSE Rank(a) > Rank(b)

\* (score + 5.0) * 1.5
Inflate(s) ==
    IF s.k = "num" THEN Num(3 * (s.n + 5 * s.d), 2 * s.d) ELSE Infinity

RECURSIVE best_score_loop(_, _, _, _, _)
best_score_loop(sBackends, server_score, ite, min, best) ==
    IF ite > Len(sBackends)
    THEN best
    ELSE LET raw == server_score[sBackends[ite]]
             score == IF ~in_use[sBackends[ite]] THEN Inflate(raw) ELSE raw
         IN  IF ScoreGt(min, score)
             THEN best_score_loop(sBackends, server_score, ite + 1, score, ite)
             ELSE best_score_loop(sBackends, server_score, ite + 1, min, best)

\* the loop with min >= score: the last of the lowest wins
RECURSIVE best_score_loop_last_lowest(_, _, _, _, _)
best_score_loop_last_lowest(sBackends, server_score, ite, min, best) ==
    IF ite > Len(sBackends)
    THEN best
    ELSE LET raw == server_score[sBackends[ite]]
             score == IF ~in_use[sBackends[ite]] THEN Inflate(raw) ELSE raw
         IN  IF ~ScoreGt(score, min)
             THEN best_score_loop_last_lowest(sBackends, server_score, ite + 1, score, ite)
             ELSE best_score_loop_last_lowest(sBackends, server_score, ite + 1, min, best)

best_score_last_lowest(sBackends, server_score) ==
    best_score_loop_last_lowest(sBackends, server_score, 1, DblMax, End(sBackends))

\* min starting at the smallest double instead of the largest
best_score_min_lowest(sBackends, server_score) ==
    best_score_loop(sBackends, server_score, 1, Num(0, 1), End(sBackends))

\* server_score: the score of every backend's server under one policy
best_score(sBackends, server_score) ==
    best_score_loop(sBackends, server_score, 1, DblMax, End(sBackends))

(* st: what a selection reads from outside the session in one pass: the     *)
(* statistics of each server and, for the adaptive policy, the worker's     *)
(* random draw.                                                             *)
\* a zero weight scoring best instead of worst
server_score_of_zero_best(b, metric) ==
    IF server_weight[b] # 0 THEN Num(metric, server_weight[b]) ELSE Num(0, 1)

server_score_of(b, metric) ==
    IF server_weight[b] # 0 THEN Num(metric, server_weight[b]) ELSE DblMax

backend_cmp_router_conn(sBackends, st) ==
    best_score(sBackends,
               [b \in Backends |-> server_score_of(b, st.connections[b] + 1)])

backend_cmp_global_conn(sBackends, st) ==
    best_score(sBackends,
               [b \in Backends |-> server_score_of(b, st.n_current[b] + 1)])

backend_cmp_behind_master(sBackends, st) ==
    best_score(sBackends,
               [b \in Backends |-> server_score_of(b, st.rlag[b])])

backend_cmp_current_load(sBackends, st) ==
    best_score(sBackends,
               [b \in Backends |-> server_score_of(b, st.n_current_ops[b] + 1)])

\* --------------------------------------------------------- adaptive routing
(* A double is modelled as a binary floating-point number of MantissaBits   *)
(* significant bits (53 in the program) and unbounded exponent: m * 2^e     *)
(* with 2^(MantissaBits-1) <= m < 2^MantissaBits, or zero.  Every           *)
(* arithmetic operation rounds its exact result to the nearest such number, *)
(* ties to the even mantissa, as IEEE 754 does.  Only values >= 0 occur.    *)
(* The operations bind their operands in a local function, so that each     *)
(* operand is evaluated once.                                               *)
FlZero == [m |-> 0, e |-> 0]

MantissaTop == 2 ^ MantissaBits
MaxShift == 3 * MantissaBits

Doubles == [m : Nat, e : Int]

\* (n / d) * 2^e rounded, for whole numbers n > 0 and d > 0
FlRound(n, d, e) ==
    LET half == MantissaTop \div 2
        round[nn \in Nat, dd \in Nat, ee \in Int] ==
            LET scaled[up \in Nat] ==
                    LET quotient[down \in Nat] ==
                            LET n1 == nn * 2 ^ up
                                d1 == dd * 2 ^ down
                                q == n1 \div d1
                                r == n1 % d1
                                m == IF 2 * r > d1 \/ (2 * r = d1 /\ q % 2 = 1)
                                     THEN q + 1 ELSE q
                            IN  IF m = MantissaTop
                                THEN [m |-> half, e |-> ee - up + down + 1]
                                ELSE [m |-> m, e |-> ee - up + down]
                    IN  quotient[CHOOSE j \in 0..MaxShift :
                                     /\ nn * 2 ^ up < dd * MantissaTop * 2 ^ j
                                     /\ j = 0 \/ nn * 2 ^ up >= dd * MantissaTop * 2 ^ (j - 1)]
            IN  scaled[CHOOSE j \in 0..MaxShift :
                           /\ nn * 2 ^ j >= dd * half
                           /\ j = 0 \/ nn * 2 ^ (j - 1) < dd * half]
    IN  round[n, d, e]

\* a whole number as a double
FlInt(k) == IF k = 0 THEN FlZero ELSE FlRound(k, 1, 0)

\* a < b
FlLt(a, b) ==
    LET lt[x \in Doubles, y \in Doubles] ==
            IF y.m = 0 THEN FALSE
            ELSE IF x.m = 0 THEN TRUE
            ELSE x.e < y.e \/ (x.e = y.e /\ x.m < y.m)
    IN  lt[a, b]

\* a + b
FlAdd(a, b) ==
    LET add[x \in Doubles, y \in Doubles] ==
            IF x.m = 0 THEN y
            ELSE IF y.m = 0 THEN x
            ELSE LET hi == IF x.e >= y.e THEN x ELSE y
                     lo == IF x.e >= y.e THEN y ELSE x
                     shift == hi.e - lo.e
                 IN  IF shift > MantissaBits + 1
                     THEN hi
                     ELSE FlRound(hi.m * 2 ^ shift + lo.m, 1, lo.e)
    IN  add[a, b]

\* a * b
FlMul(a, b) ==
    LET mul[x \in Doubles, y \in Doubles] ==
            IF x.m = 0 \/ y.m = 0 THEN FlZero ELSE FlRound(x.m * y.m, 1, x.e + y.e)
    IN  mul[a, b]

\* a / b, b > 0
FlDiv(a, b) ==
    LET div[x \in Doubles, y \in Doubles] ==
            IF x.m = 0 THEN FlZero ELSE FlRound(x.m, y.m, x.e - y.e)
    IN  div[a, b]

\* std::max(a, b)
FlMax(a, b) ==
    LET max[x \in Doubles, y \in Doubles] == IF FlLt(x, y) THEN y ELSE x
    IN  max[a, b]

\* f[1] + ... + f[n], added in that order to a sum that starts at 0
RECURSIVE FlSumTo(_, _)
FlSumTo(f, n) == IF n = 0 THEN FlZero ELSE FlAdd(FlSumTo(f, n - 1), f[n])

(* Response time averages are whole multiples of very_quick (0.1 us); the   *)
(* arithmetic is in units of very_quick.                                    *)
very_quick == 1
divisor == 197

AveValues == 0..MaxAve

\* zero_to_one_exclusive(): the doubles u / BallSteps, 0 <= u < BallSteps
BallSteps == MantissaTop
Balls == 0..(BallSteps - 1)

\* slot[i] after "fill slots with inverses of averages"
cubed_inverse(ave) ==
    LET cube[inv \in Doubles] == FlMul(FlMul(inv, inv), inv)
    IN  IF ave = 0 THEN cube[FlDiv(FlInt(1), FlInt(very_quick))]
        ELSE cube[FlDiv(FlInt(1), FlInt(ave))]

\* response_time_average() of the candidates, in candidate order
candidate_averages(sBackends, st) ==
    [i \in 1..Len(sBackends) |-> st.response_time_average[sBackends[i]]]

raw_slots(aves) ==
    [i \in 1..Len(aves) |-> cubed_inverse(aves[i])] \o <<>>

\* the slots without the floor
floored_slots_no_floor(aves) == raw_slots(aves)

\* slot[i] after std::max(slot[i], pre_total / divisor)
floored_slots(aves) ==
    LET floored[slot \in Seq(Doubles)] ==
            LET with_floor[floor \in Doubles] ==
                    [i \in 1..Len(slot) |-> FlMax(slot[i], floor)] \o <<>>
            IN  with_floor[FlDiv(FlSumTo(slot, Len(slot)), FlInt(divisor))]
    IN  floored[raw_slots(aves)]

\* total
slots_total(aves) == FlSumTo(floored_slots(aves), Len(aves))

\* slot[i] after "turn slots into a roulette wheel"
normalised_slots(aves) ==
    LET normalised[slot \in Seq(Doubles)] ==
            LET by_total[total \in Doubles] ==
                    [i \in 1..Len(slot) |-> FlDiv(slot[i], total)] \o <<>>
            IN  by_total[FlSumTo(slot, Len(slot))]
    IN  normalised[floored_slots(aves)]

\* slot_walk after adding slot[1..winner], for every winner
slot_walk(aves) ==
    LET walk[slot \in Seq(Doubles)] ==
            [winner \in 1..Len(slot) |-> FlSumTo(slot, winner)] \o <<>>
    IN  walk[normalised_slots(aves)]

(* The running sums depend on the averages of the candidates only; they are *)
(* tabulated once for every sequence of averages.                           *)
AveSeqs == UNION {[1..n -> AveValues] : n \in 0..NumBackends}
slot_walk_of == [aves \in AveSeqs |-> slot_walk(aves)] @@ <<>>
ball_of == [u \in Balls |-> IF u = 0 THEN FlZero ELSE FlRound(u, BallSteps, 0)] @@ <<>>

backend_cmp_response_time(sBackends, st) ==
    LET SZ == Len(sBackends)
        walk == slot_walk_of[candidate_averages(sBackends, st)]
        ball == ball_of[st.ball]
        hits == {winner \in 1..SZ : FlLt(ball, walk[winner])}
    IN  IF hits = {} THEN End(sBackends)
        ELSE CHOOSE winner \in hits : \A v \in hits : winner <= v

backend_select_fct(sc, sBackends, st) ==
    CASE sc = "LEAST_GLOBAL_CONNECTIONS" -> backend_cmp_global_conn(sBackends, st)
      [] sc = "LEAST_ROUTER_CONNECTIONS" -> backend_cmp_router_conn(sBackends, st)
      [] sc = "LEAST_BEHIND_MASTER" -> backend_cmp_behind_master(sBackends, st)
      [] sc = "LEAST_CURRENT_OPERATIONS" -> backend_cmp_current_load(sBackends, st)
      [] sc = "ADAPTIVE_ROUTING" -> backend_cmp_response_time(sBackends, st)

\* ------------------------------------------------------- find_best_backend
INT_MAX == 2147483647

Min(a, b) == IF a <= b THEN a ELSE b

\* a server that does not act as a slave ranked after the busy servers
priority_of_master_last(backend, masters_accepts_reads) ==
    LET is_busy == in_use[backend] /\ has_session_commands[backend]
        acts_slave == is_slave(backend)
                      \/ (is_master(backend) /\ masters_accepts_reads)
    IN  IF acts_slave THEN (IF ~is_busy THEN 1 ELSE 13) ELSE 14

priority_of(backend, masters_accepts_reads) ==
    LET is_busy == in_use[backend] /\ has_session_commands[backend]
        acts_slave == is_slave(backend)
                      \/ (is_master(backend) /\ masters_accepts_reads)
    IN  IF acts_slave THEN (IF ~is_busy THEN 1 ELSE 13) ELSE 2

RECURSIVE best_priority_of(_, _, _)
best_priority_of(backends, masters_accepts_reads, n) ==
    IF n = 0 THEN INT_MAX
    ELSE Min(best_priority_of(backends, masters_accepts_reads, n - 1),
             priority_of(backends[n], masters_accepts_reads))

\* priority_map[priority]
priority_bucket(backends, masters_accepts_reads, priority) ==
    SelectSeq(backends, LAMBDA b : priority_of(b, masters_accepts_reads) = priority)

(* The iterators find_best_backend can return.  When select returns the     *)
(* bucket's end(), *best reads past the end of the bucket vector (undefined *)
(* behaviour): the value read is arbitrary, so std::find can stop at any    *)
(* backend or at backends.end().                                            *)
find_best_backend(backends, sc, masters_accepts_reads, st) ==
    LET best_priority ==
            best_priority_of(backends, masters_accepts_reads, Len(backends))
        bucket == priority_bucket(backends, masters_accepts_reads, best_priority)
        best == backend_select_fct(sc, bucket, st)
    IN  IF best = End(bucket)
        THEN 1..End(backends)
        ELSE {Find(backends, bucket[best])}

\* ------------------------------------------------------------- utilities
\* the last master of the list instead of the first
get_root_master_last(backends) ==
    IF \E i \in 1..Len(backends) : is_master(backends[i])
    THEN backends[CHOOSE i \in 1..Len(backends) :
                     /\ is_master(backends[i])
                     /\ \A j \in (i + 1)..Len(backends) : ~is_master(backends[j])]
    ELSE NullBackend

get_root_master(backends) ==
    IF \E i \in 1..Len(backends) : is_master(backends[i])
    THEN backends[CHOOSE i \in 1..Len(backends) :
                     /\ is_master(backends[i])
                     /\ \A j \in 1..(i - 1) : ~is_master(backends[j])]
    ELSE NullBackend

\* <<slaves_found, slaves_connected>>
get_slave_counts(backends, master) ==
    LET found == {i \in 1..Len(backends) :
                     can_connect[backends[i]] /\ valid_for_slave(backends[i], master)}
    IN  <<Cardinality(found),
          Cardinality({i \in found : in_use[backends[i]]})>>

\* --------------------------------------------------- selection inputs drawn
Metrics == 0..MaxMetric
Rlags == (-1)..MaxMetric
Weights == 0..MaxWeight
\* a coarse grid of draws and averages for the top-up loop
LoopBalls == {u \in Balls : u % (BallSteps \div 4) = 0} \cup {BallSteps - 1}
LoopAves == {0, MaxAve}

ZeroStat == [b \in Backends |-> 0]

NoStats ==
    [connections |-> ZeroStat, n_current |-> ZeroStat, n_current_ops |-> ZeroStat,
     rlag |-> ZeroStat, response_time_average |-> ZeroStat, ball |-> 0]

\* The statistics a pass under policy sc can read: only the field it reads varies.
StatsFor(sc, aves, balls) ==
    CASE sc = "LEAST_GLOBAL_CONNECTIONS" ->
            {[NoStats EXCEPT !.n_current = m] : m \in [Backends -> Metrics]}
      [] sc = "LEAST_ROUTER_CONNECTIONS" ->
            {[NoStats EXCEPT !.connections = m] : m \in [Backends -> Metrics]}
      [] sc = "LEAST_BEHIND_MASTER" ->
            {[NoStats EXCEPT !.rlag = m] : m \in [Backends -> Rlags]}
      [] sc = "LEAST_CURRENT_OPERATIONS" ->
            {[NoStats EXCEPT !.n_current_ops = m] : m \in [Backends -> Metrics]}
      [] sc = "ADAPTIVE_ROUTING" ->
            {[NoStats EXCEPT !.response_time_average = m, !.ball = u] :
                m \in [Backends -> aves], u \in balls}

\* ------------------------------------------ select_connect_backend_servers
ConnectionTypes == {"ALL", "SLAVE"}

\* sescmd_list: NoList is a null pointer, otherwise the size of the list
NoList == -1
SescmdLists == {NoList, 0, 1}

NoCall ==
    [type |-> "SLAVE", sescmd_list |-> NoList, master |-> NullBackend,
     slaves_connected |-> 0, entry_slaves_connected |-> 0,
     candidates |-> <<>>, entry_candidates |-> <<>>,
     offered |-> <<>>, connected |-> {}, master_written |-> FALSE,
     result |-> "none",
     entry_in_use |-> [b \in Backends |-> FALSE],
     entry_master |-> NullBackend, entry_expected |-> 0]

\* RWSplit::max_slave_count()
max_slave_count == cnf.max_slave_connections

\* Backend::connect: in_use after a connect on backend with outcome ok
connect(iu, backend, ok) ==
    IF ok THEN [iu EXCEPT ![backend] = TRUE] ELSE iu

\* the master connect without the comparison backend == master
master_connect_first_connectable(iu, type, master, ok) ==
    IF type = "ALL" /\ master # NullBackend /\ (\E b \in Backends : can_connect[b])
    THEN connect(iu, CHOOSE b \in Backends :
                        can_connect[b] /\ \A c \in 1..(b - 1) : ~can_connect[c], ok)
    ELSE iu

\* in_use after the master connect of type ALL (lines 406-423)
master_connect(iu, type, master, ok) ==
    IF type = "ALL" /\ master # NullBackend /\ can_connect[master]
    THEN connect(iu, master, ok)
    ELSE iu

\* the gate without the can_connect test
master_gate_ignores_can_connect(master) ==
    master = NullBackend /\ cnf.master_failure_mode = "RW_FAIL_INSTANTLY"

\* the gate without the failure mode test
master_gate_any_mode(master) ==
    master = NullBackend \/ ~can_connect[master]

\* lines 384-397
master_gate(master) ==
    (master = NullBackend \/ ~can_connect[master])
    /\ cnf.master_failure_mode = "RW_FAIL_INSTANTLY"

\* lines 431-440
build_candidates(master) ==
    SelectSeq(AllBackends,
              LAMBDA b : ~in_use[b] /\ can_connect[b] /\ valid_for_slave(b, master))

\* counting a response for an empty list as well
count_response_ignores_size(expected, sescmd_list) ==
    IF sescmd_list # NoList THEN expected + 1 ELSE expected

\* *expected_responses after a successful connect(session, sescmd_list) (lines 456-459)
count_response(expected, sescmd_list) ==
    IF sescmd_list # NoList /\ sescmd_list > 0 THEN expected + 1 ELSE expected

\* the loop condition with <= for <
loop_continues_at_quota(slaves_connected, candidates) ==
    slaves_connected <= max_slave_count /\ Len(candidates) > 0

\* the condition of the while loop at line 442
loop_continues(slaves_connected, candidates) ==
    slaves_connected < max_slave_count /\ Len(candidates) > 0

Configs ==
    [master_failure_mode : FailureModes,
     slave_selection_criteria : BringUpCriteria,
     max_slave_connections : 0..MaxSlaves]

NoSel == [fn |-> "none"]

Init ==
    /\ status \in [Backends -> StatusValues]
    /\ can_connect \in [Backends -> BOOLEAN]
    /\ in_use = [b \in Backends |-> FALSE]
    /\ server_weight \in [Backends -> Weights]
    /\ cnf \in Configs
    /\ current_master = NullBackend
    /\ expected_responses = 0
    /\ pc = "idle"
    /\ call = NoCall
    /\ has_session_commands = [b \in Backends |-> FALSE]
    /\ sel = NoSel

(* The call up to the top-up loop (lines 381-440): the root master, the      *)
(* master-failure gate, the master connect of type ALL with outcome ok, the  *)
(* slave counts and the candidate set.  er is the value the caller's         *)
(* expected_responses counter holds when the call is made.                   *)
Call(type, sescmd_list, er, ok) ==
    /\ pc = "idle"
    /\ expected_responses' = er
    /\ UNCHANGED <<status, can_connect, server_weight, cnf, has_session_commands, sel>>
    /\ LET master == get_root_master(AllBackends)
           entry == [NoCall EXCEPT !.type = type, !.sescmd_list = sescmd_list,
                                   !.master = master, !.entry_in_use = in_use,
                                   !.entry_master = current_master,
                                   !.entry_expected = er]
           invoked == type = "ALL" /\ master # NullBackend /\ can_connect[master]
       IN  IF master_gate(master)
           THEN /\ ok = FALSE
                /\ pc' = "done"
                /\ call' = [entry EXCEPT !.result = "false"]
                /\ UNCHANGED <<in_use, current_master>>
           ELSE /\ ok => invoked
                /\ in_use' = master_connect(in_use, type, master, ok)
                /\ current_master' = IF invoked /\ ok THEN master ELSE current_master
                /\ LET counts == get_slave_counts(AllBackends, master)'
                       candidates == build_candidates(master)'
                       continues == loop_continues(counts[2], candidates)
                   IN  /\ pc' = IF continues THEN "loop" ELSE "done"
                       /\ call' = [entry EXCEPT
                                      !.offered = IF invoked THEN <<master>> ELSE <<>>,
                                      !.master_written = invoked /\ ok,
                                      !.slaves_connected = counts[2],
                                      !.entry_slaves_connected = counts[2],
                                      !.candidates = candidates,
                                      !.entry_candidates = candidates,
                                      !.result = IF continues THEN "none" ELSE "true"]

\* the selection made through find_best_backend instead
select_slave_bucketed(candidates, st) ==
    CHOOSE ite \in find_best_backend(candidates, cnf.slave_selection_criteria,
                                     FALSE, st) : TRUE

\* m_config->backend_select_fct(candidates) (line 444)
select_slave(candidates, st) ==
    backend_select_fct(cnf.slave_selection_criteria, candidates, st)

\* One iteration of the top-up loop in which the selection returns end() (line 447).
LoopBreak(st) ==
    /\ pc = "loop"
    /\ select_slave(call.candidates, st) = End(call.candidates)
    /\ pc' = "done"
    /\ call' = [call EXCEPT !.result = "true"]
    /\ UNCHANGED <<status, can_connect, in_use, server_weight, cnf, current_master,
                   expected_responses, has_session_commands, sel>>

(* One iteration of the top-up loop that offers the selected candidate to    *)
(* connect, with outcome ok, and erases it (lines 444-463); the loop         *)
(* condition is then evaluated again.                                        *)
LoopConnectStep(st, ok) ==
    /\ pc = "loop"
    /\ \E ite \in {select_slave(call.candidates, st)} :
           /\ ite # End(call.candidates)
           /\ LET backend == call.candidates[ite]
                  slaves_connected == call.slaves_connected + (IF ok THEN 1 ELSE 0)
                  candidates == Erase(call.candidates, ite)
                  continues == loop_continues(slaves_connected, candidates)
              IN  /\ in_use' = connect(in_use, backend, ok)
                  /\ expected_responses' =
                        IF ok THEN count_response(expected_responses, call.sescmd_list)
                        ELSE expected_responses
                  /\ pc' = IF continues THEN "loop" ELSE "done"
                  /\ call' = [call EXCEPT
                                 !.slaves_connected = slaves_connected,
                                 !.candidates = candidates,
                                 !.offered = Append(call.offered, backend),
                                 !.connected = IF ok THEN call.connected \cup {backend}
                                               ELSE call.connected,
                                 !.result = IF continues THEN "none" ELSE "true"]
    /\ UNCHANGED <<status, can_connect, server_weight, cnf, current_master,
                   has_session_commands>>

LoopConnect(st, ok) == LoopConnectStep(st, ok) /\ UNCHANGED sel

\* Between two calls the monitor reports new status bits and connectability for a server.
MonitorUpdate(b, bits, cc) ==
    /\ pc = "idle"
    /\ status' = [status EXCEPT ![b] = bits]
    /\ can_connect' = [can_connect EXCEPT ![b] = cc]
    /\ UNCHANGED <<in_use, server_weight, cnf, current_master, expected_responses,
                   pc, call, has_session_commands, sel>>

MaxPending == 0

\* The call returns to the session with call.result.
Return ==
    /\ pc = "done"
    /\ pc' = "idle"
    /\ call' = NoCall
    /\ UNCHANGED <<status, can_connect, in_use, server_weight, cnf, current_master,
                   expected_responses, has_session_commands, sel>>

Next ==
    \/ \E type \in ConnectionTypes, sescmd_list \in SescmdLists,
          er \in 0..MaxPending, ok \in BOOLEAN :
          Call(type, sescmd_list, er, ok)
    \/ \E st \in StatsFor(cnf.slave_selection_criteria, LoopAves, LoopBalls) : LoopBreak(st)
    \/ \E st \in StatsFor(cnf.slave_selection_criteria, LoopAves, LoopBalls), ok \in BOOLEAN :
          LoopConnect(st, ok)
    \/ Return
    \/ \E b \in Backends, bits \in StatusValues, cc \in BOOLEAN :
          MonitorUpdate(b, bits, cc)

Spec == Init /\ [][Next]_vars

\* ------------------------------------ one call, with the selections recorded
(* The first call of a session, under any of the five policies, in which    *)
(* every iteration of the top-up loop leaves in sel the candidates and      *)
(* statistics its selection ran on and the iterator it returned.            *)
InitTopUp ==
    /\ status \in [Backends -> StatusValues]
    /\ can_connect \in [Backends -> BOOLEAN]
    /\ in_use = [b \in Backends |-> FALSE]
    /\ server_weight \in [Backends -> Weights]
    /\ cnf \in [master_failure_mode : FailureModes,
                slave_selection_criteria : Criteria,
                max_slave_connections : 0..MaxSlaves]
    /\ current_master = NullBackend
    /\ expected_responses = 0
    /\ pc = "idle"
    /\ call = NoCall
    /\ has_session_commands = [b \in Backends |-> FALSE]
    /\ sel = NoSel

LoopConnectTraced(st, ok) ==
    /\ LoopConnectStep(st, ok)
    /\ sel' = [fn |-> "top_up", candidates |-> call.candidates, st |-> st,
               result |-> select_slave(call.candidates, st)]

NextTopUp ==
    \/ \E type \in ConnectionTypes, sescmd_list \in SescmdLists,
          er \in 0..MaxPending, ok \in BOOLEAN :
          Call(type, sescmd_list, er, ok)
    \/ \E st \in StatsFor(cnf.slave_selection_criteria, LoopAves, LoopBalls) : LoopBreak(st)
    \/ \E st \in StatsFor(cnf.slave_selection_criteria, LoopAves, LoopBalls), ok \in BOOLEAN :
          LoopConnectTraced(st, ok)

SpecTopUp == InitTopUp /\ [][NextTopUp]_vars

\* -------------------------------------------- the selection functions alone
\* A backend vector: any sequence of distinct backends.
BackendLists ==
    {l \in UNION {[1..n -> Backends] : n \in 0..NumBackends} :
        \A i, j \in 1..Len(l) : i # j => l[i] # l[j]}

Quiet ==
    /\ can_connect = [b \in Backends |-> TRUE]
    /\ cnf = [master_failure_mode |-> "RW_FAIL_INSTANTLY",
              slave_selection_criteria |-> "LEAST_CURRENT_OPERATIONS",
              max_slave_connections |-> 0]
    /\ current_master = NullBackend
    /\ expected_responses = 0
    /\ pc = "idle"
    /\ call = NoCall
    /\ sel = NoSel

\* One call of the selection function of policy sc on sBackends.
SelectBackend(sc, sBackends, st) ==
    /\ sel = NoSel
    /\ sel' = [fn |-> "select", sc |-> sc, sBackends |-> sBackends, st |-> st,
               result |-> backend_select_fct(sc, sBackends, st)]
    /\ UNCHANGED <<status, can_connect, in_use, server_weight, cnf, current_master,
                   expected_responses, pc, call, has_session_commands>>

\* One call of find_best_backend on the backend list, returning iterator best.
FindBestBackend(sc, masters_accepts_reads, st, best) ==
    /\ sel = NoSel
    /\ best \in find_best_backend(AllBackends, sc, masters_accepts_reads, st)
    /\ sel' = [fn |-> "find_best_backend", sc |-> sc,
               masters_accepts_reads |-> masters_accepts_reads, st |-> st,
               result |-> best]
    /\ UNCHANGED <<status, can_connect, in_use, server_weight, cnf, current_master,
                   expected_responses, pc, call, has_session_commands>>

\* The four score policies on any in_use flags and weights.
InitScore ==
    /\ Quiet
    /\ status = [b \in Backends |-> {"slave"}]
    /\ has_session_commands = [b \in Backends |-> FALSE]
    /\ in_use \in [Backends -> BOOLEAN]
    /\ server_weight \in [Backends -> Weights]

NextScore ==
    /\ sel = NoSel
    /\ \E sc \in NonAdaptive, sBackends \in BackendLists :
          \E st \in StatsFor(sc, AveValues, Balls) : SelectBackend(sc, sBackends, st)

SpecScore == InitScore /\ [][NextScore]_vars

\* The adaptive policy on any averages and draws.
InitAdaptive ==
    /\ Quiet
    /\ status = [b \in Backends |-> {"slave"}]
    /\ has_session_commands = [b \in Backends |-> FALSE]
    /\ in_use = [b \in Backends |-> FALSE]
    /\ server_weight = [b \in Backends |-> 1]

NextAdaptive ==
    /\ sel = NoSel
    /\ \E sBackends \in BackendLists :
          \E st \in StatsFor("ADAPTIVE_ROUTING", AveValues, Balls) :
              SelectBackend("ADAPTIVE_ROUTING", sBackends, st)

SpecAdaptive == InitAdaptive /\ [][NextAdaptive]_vars

\* find_best_backend on any backend states.
InitFindBest ==
    /\ Quiet
    /\ status \in [Backends -> StatusValues]
    /\ has_session_commands \in [Backends -> BOOLEAN]
    /\ in_use \in [Backends -> BOOLEAN]
    /\ server_weight \in [Backends -> Weights]

NextFindBest ==
    /\ sel = NoSel
    /\ \E sc \in Criteria, masters_accepts_reads \in BOOLEAN :
          \E st \in StatsFor(sc, LoopAves, LoopBalls), best \in 1..End(AllBackends) :
              FindBestBackend(sc, masters_accepts_reads, st, best)

SpecFindBest == InitFindBest /\ [][NextFindBest]_vars

\* ============================================================== properties
Range(s) == {s[i] : i \in 1..Len(s)}

NoDuplicates(s) == \A i, j \in 1..Len(s) : i # j => s[i] # s[j]

\* The first backend in list order whose is_master is true (0 if none).
FirstMaster ==
    IF \E b \in Backends : is_master(b)
    THEN CHOOSE b \in Backends : is_master(b) /\ \A c \in 1..(b - 1) : ~is_master(c)
    ELSE NullBackend

\* The condition of the master-failure gate, on the flags the call saw.
GateFires ==
    /\ cnf.master_failure_mode = "RW_FAIL_INSTANTLY"
    /\ \/ ~\E b \in Backends : is_master(b)
       \/ ~can_connect[FirstMaster]

\* connect(session) was invoked on the root master in this call
MasterOffered ==
    /\ call.type = "ALL"
    /\ call.master # NullBackend
    /\ can_connect[call.master]
    /\ call.result # "false"

\* the backends offered to connect(session, sescmd_list) by the top-up loop, in order
SlaveOffers == IF MasterOffered THEN Tail(call.offered) ELSE call.offered

\* in_use backends that are valid slaves with respect to the call's root master
InUseValidSlaves ==
    {b \in Backends : in_use[b] /\ valid_for_slave(b, call.master)}

\* backends that this call brought in use through the slave path
NewlyConnectedSlaves ==
    {b \in Backends : in_use[b] /\ ~call.entry_in_use[b] /\ b \in Range(SlaveOffers)}

(* C1 (quota): when a call has returned and max_slave_connections > 0, the   *)
(* number of in_use backends that are valid slaves (slave or relay, and not  *)
(* the call's root master) is at most max_slave_connections.                 *)
C1_Quota ==
    (pc = "done" /\ cnf.max_slave_connections > 0)
        => Cardinality(InUseValidSlaves) <= cnf.max_slave_connections

(* C2 (master-failure gate): under RW_FAIL_INSTANTLY with no master or an    *)
(* unconnectable root master, the call never enters the top-up loop, returns *)
(* false, invokes connect on no backend and leaves every in_use flag, the    *)
(* master out-parameter and expected_responses as they were at entry.        *)
C2_MasterFailureGate ==
    (pc # "idle" /\ GateFires)
        => /\ pc = "done"
           /\ call.result = "false"
           /\ call.offered = <<>>
           /\ in_use = call.entry_in_use
           /\ current_master = call.entry_master
           /\ expected_responses = call.entry_expected

\* C2 witness: a call of type ALL stopped by an unconnectable root master, with a backend in use
C2_Witness ==
    /\ pc = "done"
    /\ call.type = "ALL"
    /\ call.result = "false"
    /\ call.master # NullBackend
    /\ ~can_connect[call.master]
    /\ \E b \in Backends : in_use[b]

(* C3 (return value): a returned call has result false exactly when the gate *)
(* fired, and true otherwise.                                                *)
C3_ReturnsFalseIffGate ==
    pc = "done"
        => /\ call.result \in {"true", "false"}
           /\ (call.result = "false") <=> GateFires

(* C3 witness: no master under a mode other than RW_FAIL_INSTANTLY, a slave  *)
(* connect failed, the candidates ran out with the quota unmet, result true. *)
C3_Witness ==
    /\ pc = "done"
    /\ call.result = "true"
    /\ call.master = NullBackend
    /\ cnf.master_failure_mode # "RW_FAIL_INSTANTLY"
    /\ Len(call.offered) > 0
    /\ call.connected = {}
    /\ call.candidates = <<>>
    /\ call.slaves_connected < cnf.max_slave_connections

(* C4 (no double-pick): within one call no backend is offered to connect     *)
(* twice, the master connect included, and a backend that was offered is no  *)
(* longer in the candidate set.                                              *)
C4_NoDoublePick ==
    /\ NoDuplicates(call.offered)
    /\ Range(call.offered) \cap Range(call.candidates) = {}

\* C4 witness: a slave connect failed and the next iteration offered another candidate
C4_Witness ==
    /\ pc = "done"
    /\ ~MasterOffered
    /\ Len(call.offered) = 2
    /\ call.offered[1] \notin call.connected
    /\ call.offered[2] \in call.connected

(* C5 (master identity): the master out-parameter is written only by a call  *)
(* of type ALL whose connect on the root master succeeded, and then holds    *)
(* the first backend in list order whose is_master is true; otherwise it     *)
(* keeps its value, and a call of type SLAVE never offers the root master.   *)
C5_MasterIdentity ==
    pc # "idle"
        => /\ call.master_written
                => /\ call.type = "ALL"
                   /\ current_master = FirstMaster
                   /\ current_master # NullBackend
                   /\ in_use[current_master]
                   /\ call.offered[1] = FirstMaster
           /\ ~call.master_written => current_master = call.entry_master
           /\ current_master # call.entry_master => call.master_written
           /\ call.type = "SLAVE" => FirstMaster \notin Range(call.offered)

\* C5 witness: two masters in the list, the call of type ALL wrote the first one
C5_Witness ==
    /\ pc = "done"
    /\ call.master_written
    /\ \A b \in Backends : is_master(b)
    /\ current_master = 1
    /\ call.entry_master # 1

(* C6 (expected responses): expected_responses exceeds its value at entry by *)
(* the number of slaves newly connected in this call when a non-empty        *)
(* session command list was supplied, and equals it otherwise.               *)
C6_ExpectedResponses ==
    pc # "idle"
        => expected_responses =
              call.entry_expected
              + (IF call.sescmd_list # NoList /\ call.sescmd_list > 0
                 THEN Cardinality(NewlyConnectedSlaves) ELSE 0)

(* C6 witness: with a non-empty list, the master and one slave connected and *)
(* exactly one response is expected.                                         *)
C6_Witness ==
    /\ pc = "done"
    /\ call.sescmd_list > 0
    /\ call.master_written
    /\ ~call.entry_in_use[call.master]
    /\ Cardinality(NewlyConnectedSlaves) = 1
    /\ expected_responses = call.entry_expected + 1

(* C7 (termination): every iteration of the top-up loop removes exactly one  *)
(* candidate or leaves the loop: the slave connect attempts and the          *)
(* candidates left always add up to the initial candidate set, the loop is   *)
(* only entered with a candidate left, and the selection always returns an   *)
(* iterator into the candidates or their end().                              *)
C7_Termination ==
    pc # "idle"
        => /\ Len(SlaveOffers) + Len(call.candidates) = Len(call.entry_candidates)
           /\ pc = "loop"
                => /\ Len(call.candidates) > 0
                   /\ \A st \in StatsFor(cnf.slave_selection_criteria, LoopAves, LoopBalls) :
                         backend_select_fct(cnf.slave_selection_criteria,
                                            call.candidates, st)
                             \in 1..End(call.candidates)

\* C7 witness: two candidates, both offered, none left
C7_Witness ==
    /\ pc = "done"
    /\ Len(call.entry_candidates) = 2
    /\ Len(SlaveOffers) = 2
    /\ call.candidates = <<>>

(* C8 (priority preemption): find_best_backend returns only backends of the  *)
(* lowest-numbered non-empty priority bucket; in particular, when a backend  *)
(* has priority 1, none of priority 2 or 13 is returned.                     *)
C8_PriorityPreemption ==
    (sel.fn = "find_best_backend" /\ sel.result # End(AllBackends))
        => priority_of(AllBackends[sel.result], sel.masters_accepts_reads)
             = best_priority_of(AllBackends, sel.masters_accepts_reads,
                                Len(AllBackends))

\* The selection function found a backend in the best bucket of the last find_best_backend call.
BucketHadWinner ==
    LET bucket == priority_bucket(AllBackends, sel.masters_accepts_reads,
                                  best_priority_of(AllBackends, sel.masters_accepts_reads,
                                                   Len(AllBackends)))
    IN  backend_select_fct(sel.sc, bucket, sel.st) # End(bucket)

\* Priority preemption holds of every call in which *best is a backend of the bucket.
PreemptionWhenSelected ==
    (sel.fn = "find_best_backend" /\ BucketHadWinner)
        => /\ sel.result # End(AllBackends)
           /\ priority_of(AllBackends[sel.result], sel.masters_accepts_reads)
                = best_priority_of(AllBackends, sel.masters_accepts_reads,
                                   Len(AllBackends))

(* C9 (zero-weight exclusion): a non-adaptive selection function does not    *)
(* return a backend of weight 0 when the list holds a backend of non-zero    *)
(* weight.                                                                   *)
C9_ZeroWeightExclusion ==
    (/\ sel.fn = "select"
     /\ sel.sc \in NonAdaptive
     /\ sel.result # End(sel.sBackends)
     /\ \E i \in 1..Len(sel.sBackends) : server_weight[sel.sBackends[i]] # 0)
        => server_weight[sel.sBackends[sel.result]] # 0

(* C9 witness: a zero-weight backend that is in use and has the best lag     *)
(* comes first, a backend of non-zero weight that is not in use and has the  *)
(* worst lag comes second, and the second is returned.                       *)
C9_Witness ==
    /\ sel.fn = "select"
    /\ sel.sc = "LEAST_BEHIND_MASTER"
    /\ Len(sel.sBackends) = 2
    /\ server_weight[sel.sBackends[1]] = 0
    /\ in_use[sel.sBackends[1]]
    /\ sel.st.rlag[sel.sBackends[1]] = -1
    /\ server_weight[sel.sBackends[2]] # 0
    /\ ~in_use[sel.sBackends[2]]
    /\ sel.st.rlag[sel.sBackends[2]] = MaxMetric
    /\ sel.result = 2

(* C10 (adaptive coverage): for N >= 1 candidates every normalised slot is   *)
(* positive and at least 1 / (198 * N), every candidate is returned for     *)
(* some draw, and the normalised slots sum to 1 up to the rounding of the   *)
(* arithmetic: the sum the walk ends with is within N units in the last     *)
(* place of 1.  The draws are quantified in the states of draw 0, one state *)
(* per candidate list and averages.                                         *)
C10_AdaptiveCoverage ==
    (/\ sel.fn = "select"
     /\ sel.sc = "ADAPTIVE_ROUTING"
     /\ Len(sel.sBackends) >= 1
     /\ sel.st.ball = 0)
        => LET N == Len(sel.sBackends)
               aves == candidate_averages(sel.sBackends, sel.st)
               slot == normalised_slots(aves)
               sum == slot_walk(aves)[N]
               ulp == [m |-> 1, e |-> 1 - MantissaBits]
               winner(u) == backend_cmp_response_time(sel.sBackends,
                                                      [sel.st EXCEPT !.ball = u])
           IN  /\ \A i \in 1..N :
                     /\ slot[i].m > 0
                     /\ slot[i].e >= -2 * MantissaBits
                     /\ slot[i].m * 2 ^ (slot[i].e + 2 * MantissaBits) * 198 * N
                            >= 2 ^ (2 * MantissaBits)
               /\ \A i \in 1..N : \E u \in Balls : winner(u) = i
               /\ ~FlLt(FlAdd(sum, FlMul(FlInt(N), ulp)), FlInt(1))
               /\ ~FlLt(FlAdd(FlInt(1), FlMul(FlInt(N), ulp)), sum)

(* C10 witness: a fast first and a slowest second candidate, whose slot is   *)
(* the floor, and a draw for which the slow one is returned.                 *)
C10_Witness ==
    /\ sel.fn = "select"
    /\ sel.sc = "ADAPTIVE_ROUTING"
    /\ Len(sel.sBackends) = 2
    /\ sel.st.response_time_average[sel.sBackends[1]] = 0
    /\ sel.st.response_time_average[sel.sBackends[2]] = MaxAve
    /\ FlLt(raw_slots(candidate_averages(sel.sBackends, sel.st))[2],
            floored_slots(candidate_averages(sel.sBackends, sel.st))[2])
    /\ sel.result = 2

(* C14 (roulette walk): for N >= 1 candidates the adaptive selection returns *)
(* the smallest index whose running sum exceeds the draw, and the last       *)
(* candidate when no running sum does; it never returns 'none'.              *)
C14_RouletteWalk ==
    (/\ sel.fn = "select"
     /\ sel.sc = "ADAPTIVE_ROUTING"
     /\ Len(sel.sBackends) >= 1)
        => LET N == Len(sel.sBackends)
               walk == slot_walk(candidate_averages(sel.sBackends, sel.st))
               exceeds == {i \in 1..N : FlLt(ball_of[sel.st.ball], walk[i])}
           IN  /\ sel.result \in 1..N
               /\ IF exceeds = {}
                  THEN sel.result = N
                  ELSE sel.result \in exceeds
                       /\ \A i \in exceeds : sel.result <= i

\* the bucket the selection function was run on in the last find_best_backend call
SelectedBucket ==
    priority_bucket(AllBackends, sel.masters_accepts_reads,
                    best_priority_of(AllBackends, sel.masters_accepts_reads,
                                     Len(AllBackends)))

\* masters that are not slaves, and slaves that are in use with session commands
PlainMasters == {b \in Backends : is_master(b) /\ ~is_slave(b)}
BusySlaves ==
    {b \in Backends : is_slave(b) /\ ~is_master(b)
                         /\ in_use[b] /\ has_session_commands[b]}

\* the backends are one master and busy slaves
OnlyMasterAndBusySlaves ==
    /\ Cardinality(PlainMasters) = 1
    /\ BusySlaves # {}
    /\ PlainMasters \cup BusySlaves = Backends

(* C11 as claimed: with masters_accepts_reads off and only a master and busy *)
(* slaves present, the master is not the backend find_best_backend returns   *)
(* (stated of the calls in which the selection function returns a backend of *)
(* its bucket).                                                              *)
C11_MasterOnlyWhenAcceptingReads ==
    (/\ sel.fn = "find_best_backend"
     /\ ~sel.masters_accepts_reads
     /\ OnlyMasterAndBusySlaves
     /\ BucketHadWinner)
        => \/ sel.result = End(AllBackends)
           \/ AllBackends[sel.result] \notin PlainMasters

(* C11 (amended): the selection function is run on the idle read-capable     *)
(* servers (priority 1) whenever there is one, so no busy server competes    *)
(* with them; a master comes before the busy slaves (13) when                *)
(* masters_accepts_reads is off (priority 2) and, when it is on, unless the  *)
(* master is busy itself: with only such a master and busy slaves the        *)
(* selection function is run on the master alone, and the master is          *)
(* returned when that function returns a backend.                            *)
C11_PriorityOrder ==
    sel.fn = "find_best_backend"
        => /\ (\E b \in Backends : priority_of(b, sel.masters_accepts_reads) = 1)
                => \A b \in Range(SelectedBucket) :
                      /\ priority_of(b, sel.masters_accepts_reads) = 1
                      /\ ~(in_use[b] /\ has_session_commands[b])
           /\ (/\ OnlyMasterAndBusySlaves
               /\ \/ ~sel.masters_accepts_reads
                  \/ \A m \in PlainMasters : ~(in_use[m] /\ has_session_commands[m]))
                => /\ Range(SelectedBucket) = PlainMasters
                   /\ BucketHadWinner
                        => /\ sel.result # End(AllBackends)
                           /\ AllBackends[sel.result] \in PlainMasters

\* C11 witness: masters_accepts_reads off, a master and busy slaves, the master returned
C11_Witness ==
    /\ sel.fn = "find_best_backend"
    /\ ~sel.masters_accepts_reads
    /\ OnlyMasterAndBusySlaves
    /\ BucketHadWinner
    /\ sel.result # End(AllBackends)
    /\ AllBackends[sel.result] \in PlainMasters

(* C12 (the 'none' result): when the selection function returns 'none' for   *)
(* the bucket of the best priority, find_best_backend returns                *)
(* backends.end().                                                           *)
C12_NoneWhenNoBackendFound ==
    (sel.fn = "find_best_backend" /\ ~BucketHadWinner)
        => sel.result = End(AllBackends)

\* what a non-adaptive policy reads of a server
PolicyMetric(sc, b, st) ==
    CASE sc = "LEAST_GLOBAL_CONNECTIONS" -> st.n_current[b] + 1
      [] sc = "LEAST_ROUTER_CONNECTIONS" -> st.connections[b] + 1
      [] sc = "LEAST_BEHIND_MASTER" -> st.rlag[b]
      [] sc = "LEAST_CURRENT_OPERATIONS" -> st.n_current_ops[b] + 1

\* the score a candidate is compared by
ComparisonScore(sc, b, st) ==
    LET score == server_score_of(b, PolicyMetric(sc, b, st))
    IN  IF in_use[b] THEN score ELSE Inflate(score)

\* candidate i of the last selection has a minimal comparison score and is the first such
FirstLowest(i) ==
    LET cmp(j) == ComparisonScore(sel.sc, sel.sBackends[j], sel.st)
    IN  /\ \A j \in 1..Len(sel.sBackends) : ~ScoreGt(cmp(i), cmp(j))
        /\ \A j \in 1..(i - 1) : ScoreGt(cmp(j), cmp(i))

(* C13 as claimed: a non-adaptive selection returns the first candidate of   *)
(* minimal comparison score, and 'none' for an empty list.                   *)
C13_BestOfScore ==
    (sel.fn = "select" /\ sel.sc \in NonAdaptive)
        => IF Len(sel.sBackends) = 0
           THEN sel.result = End(sel.sBackends)
           ELSE sel.result # End(sel.sBackends) /\ FirstLowest(sel.result)

(* C13 (amended): a non-adaptive selection returns the first candidate of    *)
(* minimal comparison score when that score is below DBL_MAX, and 'none'     *)
(* when the list is empty or no comparison score is below DBL_MAX (every     *)
(* candidate has server_weight 0).                                           *)
C13_BestOfScoreBelowMax ==
    (sel.fn = "select" /\ sel.sc \in NonAdaptive)
        => LET cmp(j) == ComparisonScore(sel.sc, sel.sBackends[j], sel.st)
               below == {j \in 1..Len(sel.sBackends) : ScoreGt(DblMax, cmp(j))}
           IN  IF below = {}
               THEN sel.result = End(sel.sBackends)
               ELSE /\ sel.result \in below
                    /\ FirstLowest(sel.result)

(* C13 witness: two candidates of equal comparison score below DBL_MAX, the  *)
(* first is returned.                                                        *)
C13_Witness ==
    /\ sel.fn = "select"
    /\ sel.sc \in NonAdaptive
    /\ Len(sel.sBackends) = 2
    /\ LET cmp(j) == ComparisonScore(sel.sc, sel.sBackends[j], sel.st)
       IN  /\ ScoreGt(DblMax, cmp(1))
           /\ ~ScoreGt(cmp(1), cmp(2))
           /\ ~ScoreGt(cmp(2), cmp(1))
    /\ sel.result = 1

\* the candidates of the last recorded selection all have one priority
OnePriority(masters_accepts_reads) ==
    \A i, j \in 1..Len(sel.candidates) :
        priority_of(sel.candidates[i], masters_accepts_reads)
            = priority_of(sel.candidates[j], masters_accepts_reads)

(* C15 as claimed: the candidate an iteration of the top-up loop selects is  *)
(* one find_best_backend can return on the same candidates and statistics,   *)
(* for some value of masters_accepts_reads.                                  *)
C15_LoopSelectsBucketed ==
    sel.fn = "top_up"
        => \E masters_accepts_reads \in BOOLEAN :
              sel.result \in find_best_backend(sel.candidates,
                                               cnf.slave_selection_criteria,
                                               masters_accepts_reads, sel.st)

(* C15 (amended): the candidate an iteration of the top-up loop selects and  *)
(* offers to connect is the one the configured selection function returns on *)
(* the whole candidate set, without priority grouping; it is the one         *)
(* find_best_backend returns when all candidates have one priority.          *)
C15_LoopSelectsUnbucketed ==
    sel.fn = "top_up"
        => /\ sel.result \in 1..Len(sel.candidates)
           /\ sel.result = backend_select_fct(cnf.slave_selection_criteria,
                                              sel.candidates, sel.st)
           /\ call.offered[Len(call.offered)] = sel.candidates[sel.result]
           /\ \A masters_accepts_reads \in BOOLEAN :
                 OnePriority(masters_accepts_reads)
                    => find_best_backend(sel.candidates, cnf.slave_selection_criteria,
                                         masters_accepts_reads, sel.st)
                          = {sel.result}

(* C15 witness: the candidates are a relay that is not a slave and a slave   *)
(* of non-zero weight; the loop selected the relay, which find_best_backend  *)
(* does not return.                                                          *)
C15_Witness ==
    /\ sel.fn = "top_up"
    /\ Len(sel.candidates) = 2
    /\ is_relay(sel.candidates[1]) /\ ~is_slave(sel.candidates[1])
    /\ is_slave(sel.candidates[2]) /\ server_weight[sel.candidates[2]] # 0
    /\ sel.result = 1
    /\ \A masters_accepts_reads \in BOOLEAN :
          find_best_backend(sel.candidates, cnf.slave_selection_criteria,
                            masters_accepts_reads, sel.st) = {2}

(* C16 (stale statistics): whatever statistics an iteration of the top-up    *)
(* loop reads, it either leaves the loop offering nothing, or offers one     *)
(* candidate that was not offered before and removes it from the candidates; *)
(* slaves_connected never passes max_slave_connections.                      *)
C16_StaleStatisticsSafe ==
    [][pc = "loop"
          => /\ pc' \in {"loop", "done"}
             /\ \/ /\ pc' = "done"
                   /\ call'.offered = call.offered
                   /\ call'.candidates = call.candidates
                   /\ in_use' = in_use
                \/ /\ Len(call'.candidates) = Len(call.candidates) - 1
                   /\ \E b \in Range(call.candidates) :
                         /\ call'.offered = Append(call.offered, b)
                         /\ b \notin Range(call.offered)
                         /\ b \notin Range(call'.candidates)
             /\ call.slaves_connected < max_slave_count
             /\ call'.slaves_connected <= max_slave_count
             /\ call'.slaves_connected >= call.slaves_connected]_vars

(* C16 witness: two slaves of equal non-zero weight were offered under       *)
(* LEAST_CURRENT_OPERATIONS, and the second selection read statistics under  *)
(* which the first one offered was the busier server: the statistics changed *)
(* between the two iterations.                                               *)
C16_Witness ==
    /\ pc = "done"
    /\ cnf.slave_selection_criteria = "LEAST_CURRENT_OPERATIONS"
    /\ sel.fn = "top_up"
    /\ Len(SlaveOffers) = 2
    /\ server_weight[SlaveOffers[1]] = server_weight[SlaveOffers[2]]
    /\ server_weight[SlaveOffers[1]] # 0
    /\ sel.st.n_current_ops[SlaveOffers[1]] > sel.st.n_current_ops[SlaveOffers[2]]
    /\ call.slaves_connected = 2

(* C17 (entry assertion): in every call that passes the master-failure gate, *)
(* the slaves_connected counted at line 425 is at most max_slave_connections *)
(* or max_slave_connections is 0 (the mxb_assert at line 429).               *)
C17_EntryAssertion ==
    (pc # "idle" /\ call.result # "false")
        => \/ call.entry_slaves_connected <= max_slave_count
           \/ max_slave_count = 0

(* C18 (top-up eligibility): every backend the top-up loop offered to        *)
(* connect was not in use when the call began, can connect, is a slave or a  *)
(* relay and is not the root master; the root master is not connected        *)
(* through the slave path.                                                   *)
C18_TopUpEligibility ==
    pc # "idle"
        => \A i \in 1..Len(SlaveOffers) :
              LET b == SlaveOffers[i]
              IN  /\ ~call.entry_in_use[b]
                  /\ can_connect[b]
                  /\ is_slave(b) \/ is_relay(b)
                  /\ b # FirstMaster
                  /\ b \in Range(call.entry_candidates)

(* C18 witness: a call of type ALL whose connect on the root master failed;  *)
(* the root master is also a slave, the other backend was offered as a slave *)
(* and the root master was not.                                              *)
C18_Witness ==
    /\ pc = "done"
    /\ MasterOffered
    /\ ~call.master_written
    /\ is_slave(call.master)
    /\ ~in_use[call.master]
    /\ Len(SlaveOffers) = 1
    /\ call.candidates = <<>>
    /\ call.slaves_connected < max_slave_count

(* C19 (top-up completeness): when a call under a non-adaptive policy has    *)
(* returned true with slaves_connected below max_slave_connections, every    *)
(* candidate of non-zero server_weight was offered to connect exactly once,  *)
(* and the candidates left all have server_weight 0.                         *)
C19_TopUpCompleteness ==
    (/\ pc = "done"
     /\ call.result = "true"
     /\ cnf.slave_selection_criteria \in NonAdaptive
     /\ call.slaves_connected < max_slave_count)
        => /\ \A b \in Range(call.entry_candidates) :
                 server_weight[b] # 0
                    => Cardinality({i \in 1..Len(SlaveOffers) : SlaveOffers[i] = b}) = 1
           /\ \A b \in Range(call.candidates) : server_weight[b] = 0

(* C19 witness: two candidates, one of weight 0; the one of non-zero weight  *)
(* was offered and its connect failed, the other was never tried, and the    *)
(* call returned with the quota unmet.                                       *)
C19_Witness ==
    /\ pc = "done"
    /\ call.result = "true"
    /\ cnf.slave_selection_criteria \in NonAdaptive
    /\ call.slaves_connected < max_slave_count
    /\ Len(call.entry_candidates) = 2
    /\ Len(SlaveOffers) = 1
    /\ server_weight[SlaveOffers[1]] # 0
    /\ SlaveOffers[1] \notin call.connected
    /\ Len(call.candidates) = 1
    /\ server_weight[call.candidates[1]] = 0

(* C20 (backend state frame): during a call no backend goes from in use to   *)
(* not in use; a backend that came in use is one whose connect succeeded in  *)
(* this call; a backend that was not offered to connect keeps its flag.      *)
C20_InUseFrame ==
    pc # "idle"
        => \A b \in Backends :
              /\ call.entry_in_use[b] => in_use[b]
              /\ (in_use[b] /\ ~call.entry_in_use[b])
                    => \/ b \in call.connected
                       \/ call.master_written /\ b = call.master
              /\ b \notin Range(call.offered) => in_use[b] = call.entry_in_use[b]
              /\ (b \in call.connected /\ b \in Range(SlaveOffers)) => in_use[b]

(* C20 witness: the loop connected one slave, the connect of the next one    *)
(* failed, and the first is still in use when the call returns.              *)
C20_Witness ==
    /\ pc = "done"
    /\ Len(SlaveOffers) = 2
    /\ SlaveOffers[1] \in call.connected
    /\ ~call.entry_in_use[SlaveOffers[1]]
    /\ in_use[SlaveOffers[1]]
    /\ SlaveOffers[2] \notin call.connected
    /\ ~in_use[SlaveOffers[2]]

====
